---- MODULE Spec2Model ----
(***************************************************************************)
(* State-machine model of src/main.go: the working directory and storage  *)
(* file set up by init(), the ingestion pipeline of main() (ScanDir,       *)
(* saveMovies, saveSubs, the duplicate-directory pass) and the lifecycle   *)
(* of the web server with its signal-watching goroutine.                   *)
(***************************************************************************)
EXTENDS Integers, Sequences, FiniteSets, TLC

\* ------------------------------------------------------------------ bounds
\* longest movie list / subtitle list ScanDir returns in the model
MaxMovies == 3
MaxSubs == 1
\* how many dbConn.Create calls of one run may fail
MaxInsertFailures == 1
\* how many times the duplicate-directory pass is applied in SpecDetect
MaxPasses == 2

\* ------------------------------------------------------------ program data
\* A path is the sequence of its components: <<"m","x">> is /m/x.
\* The files a scan may find (collections.MovieDirInfo / SubDirInfo values).
FSMovies ==
  { [Dir |-> <<"m", "x">>, MovieFile |-> "a.mkv", MovieSize |-> 7, MimeType |-> "video/x-matroska"],
    [Dir |-> <<"m", "x">>, MovieFile |-> "b.mkv", MovieSize |-> 9, MimeType |-> "video/x-matroska"],
    [Dir |-> <<"n", "x">>, MovieFile |-> "a.mkv", MovieSize |-> 7, MimeType |-> "video/x-matroska"],
    [Dir |-> <<"m", "y">>, MovieFile |-> "a.mkv", MovieSize |-> 5, MimeType |-> "video/x-matroska"] }

FSSubs ==
  { [Dir |-> <<"m", "x">>, SubFile |-> "a.srt"],
    [Dir |-> <<"m", "y">>, SubFile |-> "b.srt"] }

\* filepath.Base: the last component of a path, "." for the empty path
Base(path) == IF Len(path) = 0 THEN "." ELSE path[Len(path)]

\* parsetorrentname.Parse: the parsed info and whether the parser reported an
\* error.  The names "y", "b.mkv" and "b.srt" are the ones the parser rejects.
ParseErr(name) == name \in {"y", "b.mkv", "b.srt"}

ParseTitle(name) ==
  CASE name = "x" -> "X"
    [] name = "a.mkv" -> "A"
    [] name = "a.srt" -> "A"
    [] OTHER -> "?"

Parse(name) == [Title |-> ParseTitle(name), err |-> ParseErr(name)]

Range(s) == { s[k] : k \in DOMAIN s }

\* sequences without repetition of length <= n over the set S: a scan lists
\* every file once
RECURSIVE DistinctSeqs(_, _)
DistinctSeqs(S, n) ==
  IF n = 0 THEN { <<>> }
  ELSE LET shorter == DistinctSeqs(S, n - 1)
       IN  shorter \cup
           UNION { { Append(s, e) : e \in S \ Range(s) } :
                   s \in { t \in shorter : Len(t) = n - 1 } }

\* ------------------------------------------------------------------- state
VARIABLES
  appDir,       \* the directory voodioapp exists
  dbExists,     \* the file voodioapp/voodio.db exists
  db,           \* content of voodio.db: [movies |-> rows, subs |-> rows]
  pc,           \* position of the foreground task (init, then main)
  exit,         \* "running", or how the process ended
  fault,        \* the failure this run met before serving, "none" without one
  movies,       \* main's movies, as returned by ScanDir
  subs,         \* main's subs
  idx,          \* loop index of saveMovies / saveSubs
  failures,     \* dbConn.Create calls of this run that returned an error
  srv,          \* webServer: [state, inShutdown, keepAlives]
  armed,        \* signal.Notify(closeSignal, os.Interrupt) has been called
  closeSignal,  \* number of signals buffered in closeSignal (capacity 1)
  bg,           \* position of the goroutine of main.go:187
  lsErr,        \* what ListenAndServe returned
  shutRes,      \* what webServer.Shutdown returned
  calls,        \* how often this run has started the watcher, disabled
                \* keep-alives, entered Shutdown, sent on serverDone and
                \* called cleanup()
  passes        \* applications of the duplicate-directory pass (SpecDetect)

vars == << appDir, dbExists, db, pc, exit, fault, movies, subs, idx, failures, srv,
           armed, closeSignal, bg, lsErr, shutRes, calls, passes >>

fsVars == << appDir, dbExists, db >>
scanVars == << movies, subs, idx, failures >>
srvVars == << srv, armed, closeSignal, bg, lsErr, shutRes >>

EmptyStore == [movies |-> <<>>, subs |-> <<>>]
NoServer == [state |-> "none", inShutdown |-> FALSE, keepAlives |-> TRUE]
NoCalls == [watchers |-> 0, keepAlivesOff |-> 0, shutdowns |-> 0, sends |-> 0,
            cleanups |-> 0]

\* -------------------------------------------------------- catalog records
\* saveMovies, loop body: the models.Movie handed to dbConn.Create
MovieRow(movie, id) ==
  LET dirName == Base(movie.Dir)
      dirNameParsedInfo == Parse(Base(movie.Dir))
      err == dirNameParsedInfo.err
      cleanDirName == IF ~err THEN dirNameParsedInfo.Title ELSE ""
      baseNameParsedInfo == Parse(movie.MovieFile)
      \* the second Parse discards its error: err is still the first one
      cleanBaseName == IF ~err THEN baseNameParsedInfo.Title ELSE ""
  IN  [ ID |-> id,
        DirPath |-> movie.Dir,
        DirName |-> dirName,
        CleanDirName |-> cleanDirName,
        FileSize |-> movie.MovieSize,
        BaseName |-> movie.MovieFile,
        CleanBaseName |-> cleanBaseName,
        MimeType |-> movie.MimeType,
        IsGroupDir |-> FALSE,
        IsPrepared |-> FALSE ]

\* saveSubs, loop body: the models.Subtitle handed to dbConn.Create
SubRow(sub, id) ==
  LET dirName == Base(sub.Dir)
      dirNameParsedInfo == Parse(Base(sub.Dir))
      err == dirNameParsedInfo.err
      cleanDirName == IF ~err THEN dirNameParsedInfo.Title ELSE ""
      baseNameParsedInfo == Parse(sub.SubFile)
      cleanBaseName == IF ~err THEN baseNameParsedInfo.Title ELSE ""
  IN  [ ID |-> id,
        DirPath |-> sub.Dir,
        DirName |-> dirName,
        CleanDirName |-> cleanDirName,
        BaseName |-> sub.SubFile,
        CleanBaseName |-> cleanBaseName ]

\* dbConn.Create on a table: the row is appended when the insert succeeds and
\* the table is left alone when it fails (the caller ignores the error)
Create_UniqueDir(table, row, ok) ==
  IF ok /\ \A k \in DOMAIN table : \/ table[k].DirPath # row.DirPath
                                   \/ table[k].DirName # row.DirName
  THEN Append(table, row)
  ELSE table

Create(table, row, ok) == IF ok THEN Append(table, row) ELSE table

\* ----------------------------------------------- duplicate-directory pass
\* SELECT dir_name, dir_path, COUNT(*) count ... GROUP BY dir_name, dir_path
\* HAVING count > 1: the keys shared by more than one movie row
MovieGroups_ByName(ms) ==
  { [DirName |-> ms[k].DirName, DirPath |-> ms[k].DirPath] :
      k \in { j \in DOMAIN ms :
                /\ Cardinality({ l \in DOMAIN ms : ms[l].DirName = ms[j].DirName }) > 1
                /\ \A l \in 1..(j - 1) : ms[l].DirName # ms[j].DirName } }

MovieGroups(ms) ==
  { [DirName |-> ms[k].DirName, DirPath |-> ms[k].DirPath] :
      k \in { j \in DOMAIN ms :
                Cardinality({ l \in DOMAIN ms :
                                /\ ms[l].DirName = ms[j].DirName
                                /\ ms[l].DirPath = ms[j].DirPath }) > 1 } }

\* dbConn.Where(&models.Movie{DirName, DirPath}).Find: a struct condition
\* filters on the non-zero fields only
MovieList(ms, mg) ==
  { k \in DOMAIN ms :
      /\ (mg.DirName # "" => ms[k].DirName = mg.DirName)
      /\ (mg.DirPath # <<>> => ms[k].DirPath = mg.DirPath) }

\* dbConn.Model(&m).Update(&models.Movie{IsGroupDir: true}) for one row
UpdateIsGroupDir_Toggle(m) == [m EXCEPT !.IsGroupDir = ~m.IsGroupDir]

UpdateIsGroupDir_SaveStruct(m) ==
  [m EXCEPT !.IsGroupDir = TRUE, !.DirPath = <<>>, !.DirName = "",
            !.CleanDirName = "", !.BaseName = "", !.CleanBaseName = "",
            !.MimeType = ""]

UpdateIsGroupDir(m) == [m EXCEPT !.IsGroupDir = TRUE]

\* main.go:150-171 on the movies table: every row of every group is updated
DetectGroups(ms) ==
  LET hit == UNION { MovieList(ms, mg) : mg \in MovieGroups(ms) }
  IN  [ k \in DOMAIN ms |-> IF k \in hit THEN UpdateIsGroupDir(ms[k]) ELSE ms[k] ]

\* ------------------------------------------------------------ process start
\* what a run starts from: the process at the top of init(), nothing scanned
ProcessStart ==
  /\ pc = "init"
  /\ exit = "running"
  /\ fault = "none"
  /\ movies = <<>>
  /\ subs = <<>>
  /\ idx = 1
  /\ failures = 0
  /\ srv = NoServer
  /\ armed = FALSE
  /\ closeSignal = 0
  /\ bg = "none"
  /\ lsErr = "none"
  /\ shutRes = "none"
  /\ calls = NoCalls

\* stores an earlier run may have left in voodio.db
LeftoverStores ==
  { EmptyStore } \cup
  { [movies |-> << MovieRow(m, 1) >>, subs |-> <<>>] : m \in FSMovies }

\* the cache directory before the process starts: absent, present without a
\* storage file, or present with the storage file of an earlier run
Init ==
  /\ ProcessStart
  /\ passes = 0
  /\ appDir \in BOOLEAN
  /\ dbExists \in (IF appDir THEN BOOLEAN ELSE { FALSE })
  /\ db \in (IF dbExists THEN LeftoverStores ELSE { EmptyStore })

\* the process ends at once (panic or os.Exit) with the given status
Die(status) ==
  /\ pc' = "exited"
  /\ exit' = status

\* cleanup(): os.RemoveAll(getAppDir())
RemoveAppDir ==
  /\ appDir' = FALSE
  /\ dbExists' = FALSE
  /\ db' = EmptyStore
  /\ calls' = [calls EXCEPT !.cleanups = @ + 1]

\* ---------------------------------------------------------------- init()
\* os.Remove(dbPath) followed by os.Create(dbPath): the content of the new file
CreateStore_KeepOld(old) == old

CreateStore(old) == EmptyStore

\* main.go:43-74.  mkdirOk, removeOk, createOk: whether os.MkdirAll,
\* os.Remove and os.Create succeed
InitFn ==
  /\ pc = "init"
  /\ \E mkdirOk \in BOOLEAN, removeOk \in BOOLEAN, createOk \in BOOLEAN :
       IF ~appDir /\ ~mkdirOk
       THEN /\ Die("panic_mkdir")
            /\ fault' = "mkdir"
            /\ UNCHANGED fsVars
       ELSE IF dbExists /\ ~removeOk
       THEN /\ Die("panic_rmdb")
            /\ fault' = "remove_db"
            /\ appDir' = TRUE
            /\ UNCHANGED << dbExists, db >>
       ELSE IF ~createOk
       THEN /\ Die("exit_create")
            /\ fault' = "create_db"
            /\ appDir' = TRUE
            /\ dbExists' = FALSE
            /\ db' = EmptyStore
       ELSE /\ pc' = "check_path"
            /\ appDir' = TRUE
            /\ dbExists' = TRUE
            /\ db' = CreateStore(db)
            /\ UNCHANGED << exit, fault >>
  /\ UNCHANGED << scanVars, srvVars, calls, passes >>

\* ------------------------------------------------------- main(): the checks
\* main.go:111-114: an empty -path
CheckPath ==
  /\ pc = "check_path"
  /\ \E pathGiven \in BOOLEAN :
       IF ~pathGiven
       THEN /\ fault' = "no_path"
            /\ RemoveAppDir
            /\ Die("panic_path")
       ELSE /\ pc' = "check_ffmpeg"
            /\ UNCHANGED << fsVars, exit, fault, calls >>
  /\ UNCHANGED << scanVars, srvVars, passes >>

\* what main does when checkFfmpegInstalled() is false: panic, no cleanup()
OnFfmpegMissing_Continue ==
  /\ pc' = "check_key"
  /\ UNCHANGED << fsVars, exit, calls >>

OnFfmpegMissing ==
  /\ Die("panic_ffmpeg")
  /\ UNCHANGED << fsVars, calls >>

\* main.go:116-119
CheckFfmpeg ==
  /\ pc = "check_ffmpeg"
  /\ \E installed \in BOOLEAN :
       IF ~installed
       THEN /\ fault' = "no_ffmpeg"
            /\ OnFfmpegMissing
       ELSE /\ pc' = "check_key"
            /\ UNCHANGED << fsVars, exit, fault, calls >>
  /\ UNCHANGED << scanVars, srvVars, passes >>

\* main.go:121-124: an empty -tmdb-key
CheckKey ==
  /\ pc = "check_key"
  /\ \E keyGiven \in BOOLEAN :
       IF ~keyGiven
       THEN /\ fault' = "no_key"
            /\ RemoveAppDir
            /\ Die("panic_key")
       ELSE /\ pc' = "open_db"
            /\ UNCHANGED << fsVars, exit, fault, calls >>
  /\ UNCHANGED << scanVars, srvVars, passes >>

\* main.go:126-136: repository.OpenDB and Migrate
OpenDB ==
  /\ pc = "open_db"
  /\ \E opened \in BOOLEAN :
       IF ~opened
       THEN /\ fault' = "open_db"
            /\ RemoveAppDir
            /\ Die("panic_opendb")
       ELSE /\ pc' = "scan"
            /\ UNCHANGED << fsVars, exit, fault, calls >>
  /\ UNCHANGED << scanVars, srvVars, passes >>

\* ------------------------------------------------------ main(): ingestion
\* main.go:138-145: collections.ScanDir returns the two lists or an error
ScanDir ==
  /\ pc = "scan"
  /\ \/ /\ fault' = "scan"
        /\ RemoveAppDir
        /\ Die("panic_scan")
        /\ UNCHANGED << movies, subs >>
     \/ /\ movies' \in DistinctSeqs(FSMovies, MaxMovies)
        /\ subs' \in DistinctSeqs(FSSubs, MaxSubs)
        /\ pc' = "save_movies"
        /\ UNCHANGED << fsVars, exit, fault, calls >>
  /\ UNCHANGED << idx, failures, srvVars, passes >>

\* saveMovies (main.go:229-256), one iteration of its loop, and its return.
\* ok: whether dbConn.Create succeeds; its error is not looked at.
SaveMovie ==
  /\ pc = "save_movies"
  /\ UNCHANGED calls
  /\ IF idx <= Len(movies)
     THEN \E ok \in BOOLEAN :
            /\ ok \/ failures < MaxInsertFailures
            /\ db' = [db EXCEPT !.movies =
                        Create(@, MovieRow(movies[idx], Len(@) + 1), ok)]
            /\ failures' = IF ok THEN failures ELSE failures + 1
            /\ idx' = idx + 1
            /\ UNCHANGED pc
     ELSE /\ pc' = "save_subs"
          /\ idx' = 1
          /\ UNCHANGED << db, failures >>
  /\ UNCHANGED << appDir, dbExists, exit, fault, movies, subs, srvVars, passes >>

\* saveSubs (main.go:258-281), one iteration of its loop, and its return
SaveSub ==
  /\ pc = "save_subs"
  /\ UNCHANGED calls
  /\ IF idx <= Len(subs)
     THEN \E ok \in BOOLEAN :
            /\ ok \/ failures < MaxInsertFailures
            /\ db' = [db EXCEPT !.subs =
                        Create(@, SubRow(subs[idx], Len(@) + 1), ok)]
            /\ failures' = IF ok THEN failures ELSE failures + 1
            /\ idx' = idx + 1
            /\ UNCHANGED pc
     ELSE /\ pc' = "detect"
          /\ idx' = 1
          /\ UNCHANGED << db, failures >>
  /\ UNCHANGED << appDir, dbExists, exit, fault, movies, subs, srvVars, passes >>

FindDuplicates_InBackground ==
  /\ UNCHANGED calls
  /\ \/ /\ pc = "detect"
        /\ pc' = "new_server"
        /\ UNCHANGED db
     \/ /\ pc \in { "listen", "in_serve", "wait_done" }
        /\ db' = [db EXCEPT !.movies = DetectGroups(@)]
        /\ db' # db
        /\ UNCHANGED pc
  /\ UNCHANGED << appDir, dbExists, exit, fault, scanVars, srvVars, passes >>

\* main.go:150-171: the duplicate-directory pass
FindDuplicates ==
  /\ pc = "detect"
  /\ UNCHANGED calls
  /\ db' = [db EXCEPT !.movies = DetectGroups(@)]
  /\ pc' = "new_server"
  /\ UNCHANGED << appDir, dbExists, exit, fault, scanVars, srvVars, passes >>

\* ------------------------------------------------- main(): the web server
\* main.go:173-180: web.NewServer
NewServer ==
  /\ pc = "new_server"
  /\ UNCHANGED calls
  /\ srv' = [srv EXCEPT !.state = "new"]
  /\ pc' = "notify"
  /\ UNCHANGED << fsVars, exit, fault, scanVars, armed, closeSignal, bg, lsErr,
                  shutRes, passes >>

\* main.go:182-185: the two channels and signal.Notify
Notify ==
  /\ pc = "notify"
  /\ UNCHANGED calls
  /\ armed' = TRUE
  /\ pc' = "go"
  /\ UNCHANGED << fsVars, exit, fault, scanVars, srv, closeSignal, bg, lsErr,
                  shutRes, passes >>

GoWatcher_Twice ==
  /\ pc = "go"
  /\ calls' = [calls EXCEPT !.watchers = @ + 2]
  /\ bg' = "wait_signal"
  /\ pc' = "listen"
  /\ UNCHANGED << fsVars, exit, fault, scanVars, srv, armed, closeSignal, lsErr,
                  shutRes, passes >>

\* main.go:187: the go statement starts the signal watcher
GoWatcher ==
  /\ pc = "go"
  /\ calls' = [calls EXCEPT !.watchers = @ + 1]
  /\ bg' = "wait_signal"
  /\ pc' = "listen"
  /\ UNCHANGED << fsVars, exit, fault, scanVars, srv, armed, closeSignal, lsErr,
                  shutRes, passes >>

\* main.go:206-208: what main does with the error ListenAndServe returned:
\* a non-closed error is logged, and main goes on to line 210 either way
AfterListen_AbortOnError(err) ==
  IF err = "error"
  THEN /\ RemoveAppDir
       /\ Die("panic_listen")
  ELSE /\ pc' = "wait_done"
       /\ UNCHANGED << fsVars, exit, calls >>

AfterListen_ExitOnClosed(err) ==
  IF err = "closed"
  THEN /\ RemoveAppDir
       /\ Die("ok")
  ELSE /\ pc' = "wait_done"
       /\ UNCHANGED << fsVars, exit, calls >>

AfterListen_SkipWait(err) ==
  /\ pc' = "cleanup"
  /\ UNCHANGED << fsVars, exit, calls >>

AfterListen(err) ==
  /\ pc' = "wait_done"
  /\ UNCHANGED << fsVars, exit, calls >>

\* main.go:203-206: main calls webServer.ListenAndServe.  A server whose
\* Shutdown was already called returns ErrServerClosed at once; otherwise the
\* listener is bound and the server serves, or binding fails with an error.
CallListenAndServe ==
  /\ pc = "listen"
  /\ IF srv.inShutdown
     THEN /\ srv' = [srv EXCEPT !.state = "refused"]
          /\ lsErr' = "closed"
          /\ AfterListen("closed")
     ELSE \E bound \in BOOLEAN :
            IF bound
            THEN /\ srv' = [srv EXCEPT !.state = "serving"]
                 /\ pc' = "in_serve"
                 /\ UNCHANGED << fsVars, exit, lsErr, calls >>
            ELSE /\ srv' = [srv EXCEPT !.state = "failed"]
                 /\ lsErr' = "error"
                 /\ AfterListen("error")
  /\ UNCHANGED << fault, scanVars, armed, closeSignal, bg, shutRes, passes >>

\* main.go:206: the serve loop ends with an error of its own
ServeFails ==
  /\ pc = "in_serve"
  /\ ~srv.inShutdown
  /\ srv' = [srv EXCEPT !.state = "stopped"]
  /\ lsErr' = "error"
  /\ AfterListen("error")
  /\ UNCHANGED << fault, scanVars, armed, closeSignal, bg, shutRes, passes >>

\* main.go:206: Shutdown closed the listeners, ListenAndServe returns
\* http.ErrServerClosed (Shutdown itself may still be waiting)
ServeClosed ==
  /\ pc = "in_serve"
  /\ srv.inShutdown
  /\ srv' = [srv EXCEPT !.state = "stopped"]
  /\ lsErr' = "closed"
  /\ AfterListen("closed")
  /\ UNCHANGED << fault, scanVars, armed, closeSignal, bg, shutRes, passes >>

\* ------------------------------------------------------ the signal watcher
\* an os.Interrupt reaches the process after signal.Notify: it is put in
\* closeSignal, or dropped when the buffer of 1 is full
Interrupt ==
  /\ exit = "running"
  /\ UNCHANGED calls
  /\ armed
  /\ closeSignal' = 1
  /\ UNCHANGED << fsVars, pc, exit, fault, scanVars, srv, armed, bg, lsErr, shutRes,
                  passes >>

\* main.go:188-195: <-closeSignal, the context, SetKeepAlivesEnabled(false)
BgObserve ==
  /\ exit = "running"
  /\ calls' = [calls EXCEPT !.keepAlivesOff = @ + 1]
  /\ bg = "wait_signal"
  /\ closeSignal > 0
  /\ closeSignal' = closeSignal - 1
  /\ srv' = [srv EXCEPT !.keepAlives = FALSE]
  /\ bg' = "call_shutdown"
  /\ UNCHANGED << fsVars, pc, exit, fault, scanVars, armed, lsErr, shutRes, passes >>

\* main.go:196: webServer.Shutdown(ctx) is entered, the server stops listening
BgShutdownCall ==
  /\ exit = "running"
  /\ calls' = [calls EXCEPT !.shutdowns = @ + 1]
  /\ bg = "call_shutdown"
  /\ srv' = [srv EXCEPT !.inShutdown = TRUE]
  /\ bg' = "in_shutdown"
  /\ UNCHANGED << fsVars, pc, exit, fault, scanVars, armed, closeSignal, lsErr,
                  shutRes, passes >>

\* main.go:196-200: what the goroutine does once Shutdown has returned res:
\* an error is logged, and the goroutine goes on to the send either way
AfterShutdown_ReturnOnError(res) ==
  bg' = IF res = "ok" THEN "send" ELSE "done"

AfterShutdown(res) ==
  bg' = "send"

\* main.go:196: Shutdown returns nil, an error, or the context's error once
\* the 30 seconds of main.go:192 are over
BgShutdownReturn ==
  /\ exit = "running"
  /\ UNCHANGED calls
  /\ bg = "in_shutdown"
  /\ \E res \in { "ok", "error", "timeout" } :
       /\ shutRes' = res
       /\ AfterShutdown(res)
  /\ UNCHANGED << fsVars, pc, exit, fault, scanVars, srv, armed, closeSignal, lsErr,
                  passes >>

\* serverDone is unbuffered: main's receive completes only together with the
\* goroutine's send
ServerDoneReady_NoWait == TRUE

ServerDoneReady == bg = "send"

\* main.go:200-201: after the send the goroutine returns
AfterSend_WatchAgain == "wait_signal"

AfterSend == "done"

\* main.go:200 and 210: serverDone <- true meets <-serverDone
Handshake ==
  /\ pc = "wait_done"
  /\ calls' = [calls EXCEPT !.sends = @ + 1]
  /\ ServerDoneReady
  /\ pc' = "cleanup"
  /\ bg' = IF bg = "send" THEN AfterSend ELSE bg
  /\ UNCHANGED << fsVars, exit, fault, scanVars, srv, armed, closeSignal, lsErr,
                  shutRes, passes >>

\* main.go:212: cleanup()
Cleanup ==
  /\ pc = "cleanup"
  /\ RemoveAppDir
  /\ pc' = "closing"
  /\ UNCHANGED << exit, fault, scanVars, srvVars, passes >>

\* main.go:214-215: main returns and the process exits
ExitMain ==
  /\ pc = "closing"
  /\ UNCHANGED calls
  /\ Die("ok")
  /\ UNCHANGED << fsVars, fault, scanVars, srvVars, passes >>

\* --------------------------------------------------------- specifications
MainStep ==
  \/ InitFn
  \/ CheckPath
  \/ CheckFfmpeg
  \/ CheckKey
  \/ OpenDB
  \/ ScanDir
  \/ SaveMovie
  \/ SaveSub
  \/ FindDuplicates
  \/ NewServer
  \/ Notify
  \/ GoWatcher
  \/ CallListenAndServe
  \/ ServeClosed
  \/ Handshake
  \/ Cleanup
  \/ ExitMain

BgStep ==
  \/ BgObserve
  \/ BgShutdownCall
  \/ BgShutdownReturn

Next ==
  \/ MainStep
  \/ BgStep
  \/ ServeFails
  \/ Interrupt

\* one run of the process
Spec == Init /\ [][Next]_vars

\* one run, with both tasks scheduled: a task that can take a step
\* eventually takes one.  Interrupts and serve-loop errors are not forced.
SpecFair == Spec /\ WF_vars(MainStep) /\ WF_vars(BgStep)

\* the process is killed (a signal it does not handle, or an interrupt before
\* signal.Notify): it ends where it is, cleanup() does not run
Kill ==
  /\ exit = "running"
  /\ UNCHANGED calls
  /\ Die("killed")
  /\ UNCHANGED << fsVars, fault, scanVars, srvVars, passes >>

\* the program is started again on the same machine
Restart ==
  /\ pc = "exited"
  /\ pc' = "init"
  /\ exit' = "running"
  /\ fault' = "none"
  /\ movies' = <<>>
  /\ subs' = <<>>
  /\ idx' = 1
  /\ failures' = 0
  /\ srv' = NoServer
  /\ armed' = FALSE
  /\ closeSignal' = 0
  /\ bg' = "none"
  /\ lsErr' = "none"
  /\ shutRes' = "none"
  /\ calls' = NoCalls
  /\ UNCHANGED << fsVars, passes >>

NextRuns ==
  \/ Next
  \/ Kill
  \/ Restart

\* any number of runs, one after the other
SpecRuns == Init /\ [][NextRuns]_vars

\* ------------------------------------------- the pass on its own, repeated
\* saveMovies / saveSubs run to their end with every insert succeeding
RECURSIVE SavedMovies(_)
SavedMovies(list) ==
  IF list = <<>> THEN <<>>
  ELSE LET before == SavedMovies(SubSeq(list, 1, Len(list) - 1))
       IN  Create(before, MovieRow(list[Len(list)], Len(before) + 1), TRUE)

RECURSIVE SavedSubs(_)
SavedSubs(list) ==
  IF list = <<>> THEN <<>>
  ELSE LET before == SavedSubs(SubSeq(list, 1, Len(list) - 1))
       IN  Create(before, SubRow(list[Len(list)], Len(before) + 1), TRUE)

\* main at line 150 with some scan ingested
InitDetect ==
  /\ pc = "detect"
  /\ exit = "running"
  /\ fault = "none"
  /\ appDir = TRUE
  /\ dbExists = TRUE
  /\ movies \in DistinctSeqs(FSMovies, MaxMovies)
  /\ subs \in DistinctSeqs(FSSubs, MaxSubs)
  /\ db = [movies |-> SavedMovies(movies), subs |-> SavedSubs(subs)]
  /\ idx = 1
  /\ failures = 0
  /\ srv = NoServer
  /\ armed = FALSE
  /\ closeSignal = 0
  /\ bg = "none"
  /\ lsErr = "none"
  /\ shutRes = "none"
  /\ calls = NoCalls
  /\ passes = 0

\* main.go:150-171 applied once more to the catalog
DetectPass ==
  /\ pc = "detect"
  /\ UNCHANGED calls
  /\ passes < MaxPasses
  /\ db' = [db EXCEPT !.movies = DetectGroups(@)]
  /\ passes' = passes + 1
  /\ UNCHANGED << appDir, dbExists, pc, exit, fault, scanVars, srvVars >>

NextDetect == DetectPass

SpecDetect == InitDetect /\ [][NextDetect]_vars

\* ------------------------------------------------------------------ claims
\* movie rows of ms that share both dir_name and dir_path with row k
SameDirectory(ms, k) ==
  { l \in DOMAIN ms : /\ ms[l].DirName = ms[k].DirName
                      /\ ms[l].DirPath = ms[k].DirPath }

\* main is past the duplicate-directory pass and has not removed the store
GroupingDone ==
  /\ pc \in { "new_server", "notify", "go", "listen", "in_serve", "wait_done",
              "cleanup" }
  /\ dbExists

\* C1: once saveMovies, saveSubs and the duplicate-directory pass have run, a
\* movie row has IsGroupDir set exactly when at least two movie rows of the
\* run share its dir_name and dir_path; subtitle rows play no part.
C1_GroupFlagIff ==
  GroupingDone =>
    \A k \in DOMAIN db.movies :
      db.movies[k].IsGroupDir <=> Cardinality(SameDirectory(db.movies, k)) >= 2

\* three movies, two of them in one directory, the third alone in a directory
\* that also holds a subtitle: the two are flagged, the third is not
C1_Witness ==
  /\ GroupingDone
  /\ Len(db.movies) = 3
  /\ db.movies[1].IsGroupDir /\ db.movies[2].IsGroupDir
  /\ ~db.movies[3].IsGroupDir
  /\ \E j \in DOMAIN db.subs : db.subs[j].DirPath = db.movies[3].DirPath

\* C2: whenever the process has exited, normally or not, the working
\* directory has been removed.
C2_RemovedOnEveryExit ==
  pc = "exited" => ~appDir

\* the failures main meets before it serves
PreServeFaults == { "no_path", "no_ffmpeg", "no_key", "open_db", "scan" }

\* C3: a run that met an empty path, a missing ffmpeg, an empty key, a DB open
\* failure or a scan error has ended without constructing or starting the web
\* server or its watcher, and, unless the failure was the scan's, without
\* having scanned or inserted anything.
C3_NoServiceAfterFailure ==
  fault \in PreServeFaults =>
    /\ pc = "exited"
    /\ exit \notin { "running", "ok" }
    /\ srv = NoServer
    /\ bg = "none"
    /\ lsErr = "none"
    /\ ~armed
    /\ (fault # "scan" =>
          /\ movies = <<>>
          /\ subs = <<>>
          /\ db.movies = <<>>
          /\ db.subs = <<>>)

\* the run that found no ffmpeg has ended, with nothing served
C3_Witness ==
  /\ fault = "no_ffmpeg"
  /\ pc = "exited"
  /\ srv.state = "none"

\* C4: once an insert has failed, the web server is never serving (the run is
\* fatal and no partial catalog is served).
C4_InsertFailureFatal ==
  failures > 0 => srv.state # "serving"

\* C5: on the serving path main removes the working directory and exits only
\* after the goroutine has sent on serverDone, and that send comes only after
\* Shutdown has returned.
C5_CleanupAfterServerDone ==
  /\ (bg \in { "send", "done" } => shutRes # "none" /\ srv.inShutdown)
  /\ (srv.state # "none" /\ bg # "done" =>
        /\ appDir
        /\ dbExists
        /\ exit = "running"
        /\ pc \notin { "cleanup", "closing" })
  /\ (pc \in { "cleanup", "closing" } \/ exit = "ok" => bg = "done")

\* ListenAndServe has returned while Shutdown is still running: main waits at
\* line 210, the directory is still there
C5_Witness ==
  /\ pc = "wait_done"
  /\ lsErr = "closed"
  /\ bg = "in_shutdown"
  /\ appDir

\* the states of the supervisor
Supervisor ==
  IF exit \notin { "running", "ok" } THEN "Aborted"
  ELSE IF pc = "closing" \/ exit = "ok" THEN "Stopped"
  ELSE IF bg \in { "call_shutdown", "in_shutdown", "send", "done" }
       THEN "ShuttingDown"
  ELSE IF srv.state \in { "serving", "stopped" } THEN "Serving"
  ELSE IF srv.state \in { "new", "failed" } THEN "Starting"
  ELSE "Idle"

SpecTransitions ==
  { << "Idle", "Starting" >>, << "Starting", "Serving" >>,
    << "Serving", "ShuttingDown" >>, << "ShuttingDown", "Stopped" >>,
    << "Idle", "Aborted" >>, << "Starting", "Aborted" >> }

\* C6 as stated: the supervisor only moves Idle -> Starting -> Serving ->
\* ShuttingDown -> Stopped or aborts from Idle/Starting, so the interrupt is
\* observed only after serving has started.
C6_OnlySpecTransitions ==
  [][Supervisor' # Supervisor => << Supervisor, Supervisor' >> \in SpecTransitions]_vars

\* C6 amended: the supervisor moves as above or from Starting straight to
\* ShuttingDown (the interrupt is observed before the serve call serves): the
\* interrupt is observed only after the server is constructed and the watcher
\* started, and the directory is removed only after Shutdown was entered.
C6_TransitionsWithEarlyInterrupt ==
  [][Supervisor' # Supervisor =>
       << Supervisor, Supervisor' >> \in
         SpecTransitions \cup { << "Starting", "ShuttingDown" >> }]_vars

\* the watcher has observed an interrupt and entered Shutdown before main
\* called ListenAndServe
C6_Witness ==
  /\ pc = "listen"
  /\ srv.state = "new"
  /\ srv.inShutdown
  /\ bg = "in_shutdown"

\* the run has ended normally with the working directory removed
Stopped == exit = "ok" /\ ~appDir

\* C7: an interrupt delivered while the server serves leads to Stopped with
\* the working directory removed, and so does a Shutdown that returned an
\* error or ran into its deadline.
C7_InterruptLeadsToStopped ==
  /\ (srv.state = "serving" /\ closeSignal = 1) ~> Stopped
  /\ (shutRes \in { "error", "timeout" }) ~> Stopped

\* served, interrupted, Shutdown hit its deadline, and the run still ended
\* with the directory removed
C7_Witness ==
  /\ Stopped
  /\ srv.state = "stopped"
  /\ lsErr = "closed"
  /\ shutRes = "timeout"

\* C8: after ListenAndServe returned an error other than ErrServerClosed the
\* process does not abort: until the goroutine has sent on serverDone main
\* waits at line 210 with the working directory in place, and it ends only
\* normally, after Shutdown has returned.
C8_ListenErrorWaits ==
  lsErr = "error" =>
    /\ exit \in { "running", "ok" }
    /\ (bg # "done" => pc = "wait_done" /\ appDir /\ dbExists)
    /\ (exit = "ok" => bg = "done" /\ shutRes # "none")

\* binding failed, main waits for the goroutine, no interrupt yet
C8_Witness ==
  /\ lsErr = "error"
  /\ srv.state = "failed"
  /\ pc = "wait_done"
  /\ bg = "wait_signal"
  /\ appDir

\* C9: applying the duplicate-directory pass again changes nothing: from the
\* second application on the catalog stays as the first left it.
C9_SecondPassChangesNothing ==
  [][passes >= 1 => db' = db]_vars

\* the pass has run twice on a catalog in which it flags some rows and not
\* others
C9_Witness ==
  /\ passes = 2
  /\ \E k \in DOMAIN db.movies : db.movies[k].IsGroupDir
  /\ \E k \in DOMAIN db.movies : ~db.movies[k].IsGroupDir

\* C10: in every run, once init() is through, the store holds only rows made
\* from this run's own scan: it is empty until the scan is ingested, whatever
\* an earlier run left in voodio.db.
C10_StoreOfThisRunOnly ==
  exit = "running" /\ pc # "init" /\ dbExists =>
    /\ Len(db.movies) <= Len(movies)
    /\ Len(db.subs) <= Len(subs)
    /\ \A k \in DOMAIN db.movies :
         \E j \in DOMAIN movies : /\ movies[j].Dir = db.movies[k].DirPath
                                  /\ movies[j].MovieFile = db.movies[k].BaseName
    /\ \A k \in DOMAIN db.subs :
         \E j \in DOMAIN subs : /\ subs[j].Dir = db.subs[k].DirPath
                                /\ subs[j].SubFile = db.subs[k].BaseName

\* a run starts on the storage file a killed run left behind, with flagged
\* rows in it
C10_Witness ==
  /\ pc = "init"
  /\ dbExists
  /\ Len(db.movies) >= 2
  /\ \E k \in DOMAIN db.movies : db.movies[k].IsGroupDir

\* this run is past init() and still going: the rows of the store are this
\* run's rows
OwnRows == exit = "running" /\ pc # "init" /\ dbExists

\* what normalizing a name gives: the parsed title, "" when the parse fails
Normalized(name) == IF ParseErr(name) THEN "" ELSE ParseTitle(name)

\* C11: in every movie and subtitle row CleanBaseName is the normalization of
\* the file name and CleanDirName the normalization of the directory name,
\* each decided by the outcome of its own parse.
C11_CleanNamesFollowOwnParse ==
  OwnRows =>
    /\ \A k \in DOMAIN db.movies :
         /\ db.movies[k].CleanBaseName = Normalized(db.movies[k].BaseName)
         /\ db.movies[k].CleanDirName = Normalized(db.movies[k].DirName)
    /\ \A k \in DOMAIN db.subs :
         /\ db.subs[k].CleanBaseName = Normalized(db.subs[k].BaseName)
         /\ db.subs[k].CleanDirName = Normalized(db.subs[k].DirName)

\* C12: a parser error on the directory name or the file name of an entry does
\* not stop ingestion: the row is inserted, with an empty clean title for the
\* name that failed, and the following entries are inserted too.
C12_ParseErrorGivesEmptyTitle ==
  OwnRows =>
    /\ \A k \in DOMAIN db.movies :
         /\ (ParseErr(db.movies[k].DirName) => db.movies[k].CleanDirName = "")
         /\ (ParseErr(db.movies[k].BaseName) => db.movies[k].CleanBaseName = "")
    /\ \A k \in DOMAIN db.subs :
         /\ (ParseErr(db.subs[k].DirName) => db.subs[k].CleanDirName = "")
         /\ (ParseErr(db.subs[k].BaseName) => db.subs[k].CleanBaseName = "")
    /\ (pc = "detect" /\ failures = 0 =>
          Len(db.movies) = Len(movies) /\ Len(db.subs) = Len(subs))

\* how many movie / subtitle entries saveMovies and saveSubs are through with
MoviesDone == IF pc = "save_movies" THEN idx - 1 ELSE Len(movies)
SubsDone ==
  IF pc = "save_movies" THEN 0
  ELSE IF pc = "save_subs" THEN idx - 1
  ELSE Len(subs)

\* C13: while no insert has failed, the catalog holds one movie row per movie
\* entry handled so far and one subtitle row per subtitle entry handled so
\* far, in the order of the lists, entries of one directory included, every
\* movie row with IsGroupDir and IsPrepared false; after ingestion that is
\* one row per scanned entry and nothing else.
C13_OneRowPerEntryInOrder ==
  exit = "running" /\ failures = 0
    /\ pc \in { "save_movies", "save_subs", "detect" } =>
      /\ Len(db.movies) = MoviesDone
      /\ Len(db.subs) = SubsDone
      /\ \A k \in DOMAIN db.movies :
           /\ db.movies[k].DirPath = movies[k].Dir
           /\ db.movies[k].DirName = Base(movies[k].Dir)
           /\ db.movies[k].BaseName = movies[k].MovieFile
           /\ db.movies[k].FileSize = movies[k].MovieSize
           /\ db.movies[k].MimeType = movies[k].MimeType
           /\ ~db.movies[k].IsGroupDir
           /\ ~db.movies[k].IsPrepared
      /\ \A k \in DOMAIN db.subs :
           /\ db.subs[k].DirPath = subs[k].Dir
           /\ db.subs[k].DirName = Base(subs[k].Dir)
           /\ db.subs[k].BaseName = subs[k].SubFile

\* ingestion is over, three movies of which the first two share a directory,
\* and a subtitle
C13_Witness ==
  /\ pc = "detect"
  /\ failures = 0
  /\ Len(db.movies) = 3
  /\ db.movies[1].DirPath = db.movies[2].DirPath
  /\ Len(db.subs) = 1

\* a step that adds a row to a table
Inserted ==
  \/ Len(db'.movies) > Len(db.movies)
  \/ Len(db'.subs) > Len(db.subs)

\* a step that changes IsGroupDir of a row
FlagUpdated ==
  \E k \in DOMAIN db.movies \cap DOMAIN db'.movies :
    db'.movies[k].IsGroupDir # db.movies[k].IsGroupDir

\* main is past saveSubs
IngestionOver ==
  pc \in { "detect", "new_server", "notify", "go", "listen", "in_serve",
           "wait_done", "cleanup" }

\* C14: rows are inserted only by saveMovies and saveSubs, after the scan and
\* before the server and the watcher exist; when the pass starts every scanned
\* entry has had its insert; flags are updated only by the pass, before the
\* server is constructed; from the construction of the server on the catalog
\* is not written, only removed by cleanup().
C14_StagesInSequence ==
  /\ [](exit = "running" /\ IngestionOver /\ dbExists =>
          Len(db.movies) + Len(db.subs) + failures = Len(movies) + Len(subs))
  /\ [][Inserted => /\ pc \in { "save_movies", "save_subs" }
                    /\ movies' = movies /\ subs' = subs
                    /\ srv = NoServer /\ bg = "none" /\ ~armed
                    /\ \A k \in DOMAIN db.movies : ~db.movies[k].IsGroupDir]_vars
  /\ [][FlagUpdated => /\ pc = "detect"
                       /\ srv = NoServer /\ bg = "none" /\ ~armed]_vars
  /\ [][srv.state # "none" => \/ db' = db
                              \/ ~dbExists' /\ db' = EmptyStore]_vars

\* the server serves a catalog with flagged rows and a subtitle while the
\* watcher waits
C14_Witness ==
  /\ pc = "in_serve"
  /\ srv.state = "serving"
  /\ bg = "wait_signal"
  /\ Len(db.subs) = 1
  /\ \E k \in DOMAIN db.movies : db.movies[k].IsGroupDir

\* C15: the duplicate-directory pass leaves the subtitle table as it is, adds
\* and removes no movie row, and changes no field of a movie row other than
\* IsGroupDir; IsPrepared stays false.
C15_PassChangesOnlyGroupFlag ==
  [][pc = "detect" /\ pc' = "new_server" =>
       /\ db'.subs = db.subs
       /\ Len(db'.movies) = Len(db.movies)
       /\ \A k \in DOMAIN db.movies :
            /\ [db'.movies[k] EXCEPT !.IsGroupDir = db.movies[k].IsGroupDir]
                 = db.movies[k]
            /\ ~db'.movies[k].IsPrepared
       /\ appDir' = appDir /\ dbExists' = dbExists]_vars

\* the pass has flagged the movies of a directory that also holds a subtitle,
\* and left another movie unflagged
C15_Witness ==
  /\ pc = "new_server"
  /\ \E k \in DOMAIN db.movies :
       /\ db.movies[k].IsGroupDir
       /\ \E j \in DOMAIN db.subs : db.subs[j].DirPath = db.movies[k].DirPath
  /\ \E k \in DOMAIN db.movies : ~db.movies[k].IsGroupDir

\* the tasks of the supervisor that are running
ActiveTasks ==
  (IF exit = "running" THEN 1 ELSE 0)
  + (IF exit = "running" /\ bg \notin { "none", "done" } THEN calls.watchers ELSE 0)

\* C16: the watcher is started at most once and exists exactly when it was
\* started; while main is in the serve call there are two tasks, main and the
\* one watcher, and the watcher is blocked on closeSignal as long as no
\* interrupt has been observed.
C16_TwoTasksWhileServing ==
  /\ calls.watchers <= 1
  /\ (bg = "none" <=> calls.watchers = 0)
  /\ (pc = "in_serve" =>
        /\ ActiveTasks = 2
        /\ (calls.keepAlivesOff = 0 => bg = "wait_signal"))
  /\ (pc \in { "listen", "in_serve", "wait_done", "cleanup", "closing" } =>
        calls.watchers = 1)

\* main is in the serve call, the one watcher waits for the interrupt
C16_Witness ==
  /\ pc = "in_serve"
  /\ srv.state = "serving"
  /\ bg = "wait_signal"
  /\ calls.watchers = 1
  /\ ActiveTasks = 2

\* C17: once an interrupt is in closeSignal (delivered after signal.Notify,
\* whatever main is doing), the send on serverDone is eventually met by main's
\* receive, the watcher is done and main has ended normally.
C17_HandshakeCompletes ==
  (exit = "running" /\ armed /\ closeSignal = 1) ~>
    (exit = "ok" /\ bg = "done" /\ calls.sends = 1)

\* the interrupt came before ListenAndServe was called; the handshake still
\* took place and both tasks ended
C17_Witness ==
  /\ exit = "ok"
  /\ srv.state = "refused"
  /\ bg = "done"
  /\ calls.sends = 1

\* C18: whatever interrupts follow the first, keep-alives are disabled at most
\* once, Shutdown is entered at most once, serverDone is sent at most once and
\* cleanup() runs at most once; a run that ended normally did each exactly
\* once, and once Shutdown was entered nothing takes an interrupt out of
\* closeSignal again.
C18_LaterInterruptsNoEffect ==
  /\ calls.keepAlivesOff <= 1
  /\ calls.shutdowns <= 1
  /\ calls.sends <= 1
  /\ calls.cleanups <= 1
  /\ calls.shutdowns <= calls.keepAlivesOff
  /\ calls.sends <= calls.shutdowns
  /\ (bg \in { "call_shutdown", "in_shutdown", "send", "done" } =>
        calls.keepAlivesOff = 1)
  /\ (exit = "ok" =>
        /\ calls.keepAlivesOff = 1
        /\ calls.shutdowns = 1
        /\ calls.sends = 1
        /\ calls.cleanups = 1)

\* the run ended normally with a later interrupt still in closeSignal: it was
\* never looked at
C18_Witness ==
  /\ exit = "ok"
  /\ closeSignal = 1
  /\ calls.shutdowns = 1
  /\ calls.cleanups = 1

====
